---- MODULE Spec2Model ----
(***************************************************************************)
(* A model of mitosis (src/mitosis/__init__.py): the variant registry, the *)
(* master variant key, the iteration counter, the two-phase trial ledger   *)
(* written through DBHandler.emit, and run(), the orchestrator.            *)
(*                                                                         *)
(* Text is a sequence of symbols.  A symbol is one character ("-", "1",    *)
(* "A"), or a run of characters that holds no "-" and is never taken apart *)
(* (a commit hash, "trial entry: insert").  A database cell is text, or    *)
(* NULL.                                                                   *)
(***************************************************************************)
EXTENDS Integers, Sequences, FiniteSets, TLC

\* ------------------------------------------------------------------ bounds
MaxCalls == 2       \* calls of run() made by processes side by side
MaxSeqCalls == 3    \* calls of run() made by one process, one after another
MaxRegCalls == 2    \* calls of run() that register values of every kind
MaxItems == 2       \* elements of a list or tuple that is canonicalized

\* -------------------------------------------------------------------- text
Digits == <<"0", "1", "2", "3", "4", "5", "6", "7", "8", "9">>

DigitSet == {Digits[i] : i \in 1..10}

DigitVal(c) == (CHOOSE i \in 1..10 : Digits[i] = c) - 1

\* Python's code point order, on the characters the model's names use.
CharOrd(c) ==
    CASE c = "-" -> 45
      [] c \in DigitSet -> 48 + DigitVal(c)
      [] c = "A" -> 65
      [] c = "B" -> 66
      [] c = "a" -> 97
      [] c = "b" -> 98
      [] c = "f" -> 102
      [] c = "o" -> 111
      [] c = "r" -> 114
      [] OTHER -> 127

RECURSIVE StrLess(_, _)
\* s < t for Python str: lexicographic by code point, a proper prefix first.
StrLess(s, t) ==
    IF t = <<>> THEN FALSE
    ELSE IF s = <<>> THEN TRUE
    ELSE IF Head(s) = Head(t) THEN StrLess(Tail(s), Tail(t))
    ELSE CharOrd(Head(s)) < CharOrd(Head(t))

RECURSIVE IntToStr(_)
\* f"{n}" of a Python int.
IntToStr(n) ==
    IF n < 0 THEN <<"-">> \o IntToStr(-n)
    ELSE IF n < 10 THEN <<Digits[n + 1]>>
    ELSE IntToStr(n \div 10) \o <<Digits[(n % 10) + 1]>>

IsDigits(s) == s # <<>> /\ \A i \in 1..Len(s) : s[i] \in DigitSet

\* Text that SQLite reads as an integer: an optional sign, then digits.
IsNumeral(s) ==
    \/ IsDigits(s)
    \/ Len(s) > 1 /\ s[1] = "-" /\ IsDigits(Tail(s))

RECURSIVE DigitsToInt(_)
DigitsToInt(s) ==
    IF s = <<>> THEN 0
    ELSE 10 * DigitsToInt(SubSeq(s, 1, Len(s) - 1)) + DigitVal(s[Len(s)])

StrToInt(s) == IF s[1] = "-" THEN -DigitsToInt(Tail(s)) ELSE DigitsToInt(s)

RECURSIVE Join(_, _)
\* sep.join(parts)
Join(sep, parts) ==
    IF parts = <<>> THEN <<>>
    ELSE IF Len(parts) = 1 THEN parts[1]
    ELSE parts[1] \o sep \o Join(sep, Tail(parts))

StartsWith(s, p) == Len(s) >= Len(p) /\ SubSeq(s, 1, Len(p)) = p

RECURSIVE Contains(_, _)
\* p in s
Contains(s, p) ==
    IF Len(s) < Len(p) THEN FALSE
    ELSE StartsWith(s, p) \/ Contains(Tail(s), p)

RECURSIVE SplitFrom(_, _, _)
\* str.split(sep): the separators are found left to right, without overlap;
\* cur is the part read so far.
SplitFrom(s, sep, cur) ==
    IF s = <<>> THEN <<cur>>
    ELSE IF StartsWith(s, sep)
         THEN <<cur>> \o SplitFrom(SubSeq(s, Len(sep) + 1, Len(s)), sep, <<>>)
         ELSE SplitFrom(Tail(s), sep, Append(cur, Head(s)))

Split(s, sep) == SplitFrom(s, sep, <<>>)

\* Python's sorted(..., key=...): the permutation that sorts n elements,
\* stably, less[<<i, j>>] telling whether element i is below element j.
SortPerm(n, less) ==
    CHOOSE p \in [1..n -> 1..n] :
        /\ \A i, j \in 1..n : i # j => p[i] # p[j]
        /\ \A i, j \in 1..n : i < j =>
               /\ ~less[<<p[j], p[i]>>]
               /\ (~less[<<p[i], p[j]>>] => p[i] < p[j])

\* The table of a < b over the elements of a sequence of str.
StrBelow(keys) ==
    [ij \in (1..Len(keys)) \X (1..Len(keys)) |-> StrLess(keys[ij[1]], keys[ij[2]])]

Permute(seq, p) == [i \in 1..Len(seq) |-> seq[p[i]]]

\* ----------------------------------------------------------- Python values
\* A parameter value: an int, a str, a list, a tuple, a dict (its keys and
\* its values, in insertion order) or a function.  Every value has the same
\* fields; fn holds what cleanstr and repr read of a function.
NoFn ==
    [name |-> <<>>, module |-> <<>>, qualname |-> <<>>,
     loaded |-> FALSE, resolves |-> FALSE, addr |-> <<>>]

PyInt(n) == [t |-> "int", n |-> n, s |-> <<>>, keys |-> <<>>, items |-> <<>>, fn |-> NoFn]

PyStr(s) == [t |-> "str", n |-> 0, s |-> s, keys |-> <<>>, items |-> <<>>, fn |-> NoFn]

PyList(items) ==
    [t |-> "list", n |-> 0, s |-> <<>>, keys |-> <<>>, items |-> items, fn |-> NoFn]

PyTuple(items) ==
    [t |-> "tuple", n |-> 0, s |-> <<>>, keys |-> <<>>, items |-> items, fn |-> NoFn]

PyDict(keys, items) ==
    [t |-> "dict", n |-> 0, s |-> <<>>, keys |-> keys, items |-> items, fn |-> NoFn]

\* type(obj).__name__ of the objects cleanstr takes for functions
FuncTypes == {"function", "method", "builtin_function_or_method"}

\* A function object: its __name__, __module__ and __qualname__, whether
\* sys.modules holds the module, whether getattr(mod, qualname) is the object,
\* and the address it has in the process that holds it.
PyFunc(kind, name, module, qualname, loaded, resolves, addr) ==
    [t |-> kind, n |-> 0, s |-> <<>>, keys |-> <<>>, items |-> <<>>,
     fn |-> [name |-> name, module |-> module, qualname |-> qualname,
             loaded |-> loaded, resolves |-> resolves, addr |-> addr]]

\* isinstance(v, Mapping); isinstance(v, Collection); isinstance(v, Hashable)
IsMapping(v) == v.t = "dict"

IsCollection(v) == v.t \in {"str", "list", "tuple", "dict"}

IsHashable(v) == v.t \in {"int", "str", "tuple"} \cup FuncTypes

RECURSIVE PyCmp(_, _)
\* a < b as Python decides it: "lt", "eq", "gt", or "err" (TypeError).
PyCmp(a, b) ==
    IF a.t = "int" /\ b.t = "int"
    THEN (IF a.n < b.n THEN "lt" ELSE IF a.n = b.n THEN "eq" ELSE "gt")
    ELSE IF a.t = "str" /\ b.t = "str"
    THEN (IF a.s = b.s THEN "eq" ELSE IF StrLess(a.s, b.s) THEN "lt" ELSE "gt")
    ELSE IF a.t = b.t /\ a.t \in {"list", "tuple"}
    THEN LET m == IF Len(a.items) < Len(b.items) THEN Len(a.items) ELSE Len(b.items)
             d == {i \in 1..m : a.items[i] # b.items[i]}
         IN  IF d = {}
             THEN (IF Len(a.items) < Len(b.items) THEN "lt"
                   ELSE IF Len(a.items) = Len(b.items) THEN "eq" ELSE "gt")
             ELSE LET i == CHOOSE k \in d : \A l \in d : k <= l
                  IN  PyCmp(a.items[i], b.items[i])
    ELSE "err"

PyLess(a, b) == PyCmp(a, b) = "lt"

\* sorted(items) raises TypeError when two elements cannot be ordered.
Orderable(items) ==
    \A i, j \in 1..Len(items) : i # j => PyCmp(items[i], items[j]) # "err"

\* The table of a < b over the elements of a sequence of values.
PyBelow(items) ==
    [ij \in (1..Len(items)) \X (1..Len(items)) |-> PyLess(items[ij[1]], items[ij[2]])]

PySorted(items) == Permute(items, SortPerm(Len(items), PyBelow(items)))

\* The result of a conversion to text: the text, or the exception raised.
Ok(text) == [exc |-> "", text |-> text]

Raise(e) == [exc |-> e, text |-> <<>>]

RECURSIVE PyRepr(_)
RECURSIVE ReprItems(_)
RECURSIVE ReprPairs(_, _)
\* repr(v), Python's own: a str is quoted, a container shows the reprs of its
\* elements in the order it holds them.
PyRepr(v) ==
    CASE v.t = "int" -> IntToStr(v.n)
      [] v.t = "str" -> <<"'">> \o v.s \o <<"'">>
      [] v.t = "list" -> <<"[">> \o ReprItems(v.items) \o <<"]">>
      [] v.t = "tuple" ->
            <<"(">> \o ReprItems(v.items)
                \o (IF Len(v.items) = 1 THEN <<",">> ELSE <<>>) \o <<")">>
      [] v.t = "dict" -> <<"{">> \o ReprPairs(v.keys, v.items) \o <<"}">>
      [] v.t = "function" -> <<"<function ">> \o v.fn.qualname \o <<" at ">> \o v.fn.addr \o <<">">>
      [] v.t = "method" ->
            <<"<bound method ">> \o v.fn.qualname \o <<" of <object at ">> \o v.fn.addr \o <<">>">>
      [] v.t = "builtin_function_or_method" -> <<"<built-in function ">> \o v.fn.name \o <<">">>

ReprItems(items) ==
    IF items = <<>> THEN <<>>
    ELSE IF Len(items) = 1 THEN PyRepr(items[1])
    ELSE PyRepr(items[1]) \o <<",", " ">> \o ReprItems(Tail(items))

ReprPairs(keys, items) ==
    IF keys = <<>> THEN <<>>
    ELSE PyRepr(keys[1]) \o <<":", " ">> \o PyRepr(items[1])
         \o (IF Len(keys) = 1 THEN <<>>
             ELSE <<",", " ">> \o ReprPairs(Tail(keys), Tail(items)))

\* str(v), Python's own: a str as it is, anything else by its repr.
PyStrOf(v) == IF v.t = "str" THEN v.s ELSE PyRepr(v)

\* cleanstr without the test of line 497.
CleanstrUnresolved(obj) ==
    IF obj.t \in FuncTypes
    THEN IF obj.fn.name = <<"<lambda>">> THEN Raise("ValueError")
         ELSE IF obj.fn.module = <<"__main__">> THEN Raise("ImportError")
         ELSE IF Contains(obj.fn.qualname, <<"<locals>">>) THEN Raise("ImportError")
         ELSE IF ~obj.fn.loaded THEN Raise("ImportError")
         ELSE Ok(<<"<", obj.t, " ">> \o obj.fn.module \o <<".">> \o obj.fn.qualname \o <<">">>)
    ELSE IF obj.t = "str" THEN Ok(<<"'">> \o obj.s \o <<"'">>)
    ELSE Ok(PyStrOf(obj))

\* cleanstr
cleanstr(obj) ==
    IF obj.t \in FuncTypes
    THEN IF obj.fn.name = <<"<lambda>">> THEN Raise("ValueError")
         ELSE IF obj.fn.module = <<"__main__">> THEN Raise("ImportError")
         ELSE IF Contains(obj.fn.qualname, <<"<locals>">>) THEN Raise("ImportError")
         ELSE IF ~obj.fn.loaded THEN Raise("ImportError")
         ELSE IF ~obj.fn.resolves THEN Raise("ImportError")
         ELSE Ok(<<"<", obj.t, " ">> \o obj.fn.module \o <<".">> \o obj.fn.qualname \o <<">">>)
    ELSE IF obj.t = "str" THEN Ok(<<"'">> \o obj.s \o <<"'">>)
    ELSE Ok(PyStrOf(obj))

\* string[:-2]
DropLast2(s) == IF Len(s) <= 2 THEN <<>> ELSE SubSeq(s, 1, Len(s) - 2)

RECURSIVE DictBody(_, _, _)
RECURSIVE ListBody(_, _)
RECURSIVE ItemStr(_)
\* One value inside a StrictlyReproduceableDict or ..List: a mapping through
\* StrictlyReproduceableDict(**v), which takes str keys only and keeps their
\* order; an unhashable collection through StrictlyReproduceableList(v);
\* anything else through cleanstr.
ItemStr(v) ==
    IF IsMapping(v)
    THEN IF \E i \in 1..Len(v.keys) : v.keys[i].t # "str"
         THEN Raise("TypeError")
         ELSE DictBody(v.keys, v.items, <<"{">>)
    ELSE IF IsCollection(v) /\ ~IsHashable(v)
    THEN ListBody(v.items, <<"[">>)
    ELSE cleanstr(v)

\* StrictlyReproduceableDict.__str__: the loop over self.items(), then its
\* else branch, which cuts the last two characters and closes the brace.
DictBody(keys, items, string) ==
    IF keys = <<>> THEN Ok(DropLast2(string) \o <<"}">>)
    ELSE LET k == cleanstr(keys[1])
             v == ItemStr(items[1])
         IN  IF k.exc # "" THEN k
             ELSE IF v.exc # "" THEN v
             ELSE DictBody(Tail(keys), Tail(items),
                           string \o k.text \o <<":", " ">> \o v.text \o <<",", " ">>)

\* StrictlyReproduceableList.__str__
ListBody(items, string) ==
    IF items = <<>> THEN Ok(DropLast2(string) \o <<"]">>)
    ELSE LET v == ItemStr(items[1])
         IN  IF v.exc # "" THEN v
             ELSE ListBody(Tail(items), string \o v.text \o <<",", " ">>)

\* _verify_variant_name, lines 182-190 and the str(vals) of lines 194-200: the
\* canonical string of a parameter's value.
CanonicalStr(vals) ==
    IF IsMapping(vals)
    THEN IF ~Orderable(vals.keys) THEN Raise("TypeError")
         ELSE LET p == SortPerm(Len(vals.keys), PyBelow(vals.keys))
              IN  DictBody(Permute(vals.keys, p), Permute(vals.items, p), <<"{">>)
    ELSE IF IsCollection(vals) /\ vals.t # "str"
    THEN IF Orderable(vals.items)
         THEN ListBody(PySorted(vals.items), <<"[">>)
         ELSE Ok(PyStrOf(vals))
    ELSE Ok(PyStrOf(vals))

\* ------------------------------------------------------------ the database
NULL == <<"NULL">>

\* DBHandler.__init__: separator
Sep == <<"-", "-">>

\* trials_columns(): the columns of a trials table, in order.
trials_columns ==
    << [name |-> "variant",   type |-> "Integer", primary_key |-> TRUE,  nullable |-> FALSE],
       [name |-> "iteration", type |-> "Integer", primary_key |-> TRUE,  nullable |-> FALSE],
       [name |-> "commit",    type |-> "String",  primary_key |-> FALSE, nullable |-> FALSE],
       [name |-> "cpu_time",  type |-> "Float",   primary_key |-> FALSE, nullable |-> TRUE],
       [name |-> "results",   type |-> "String",  primary_key |-> FALSE, nullable |-> TRUE],
       [name |-> "filename",  type |-> "String",  primary_key |-> FALSE, nullable |-> TRUE] >>

ColNames == {trials_columns[i].name : i \in 1..Len(trials_columns)}

\* Text that float() accepts: an integer, or a process time as f"{cpu_time}"
\* prints it (one symbol).
FloatSymbols == {"0.25"}

IsFloatText(text) == IsNumeral(text) \/ (Len(text) = 1 /\ text[1] \in FloatSymbols)

\* What a column holds after text was written to it.  A column declared
\* Integer has SQLite's INTEGER affinity: text that reads as an integer is
\* kept as that integer (shown here by its decimal digits), other text as it
\* is.  A Float column keeps the float that SQLAlchemy made of the text.
Stored(col, text) ==
    CASE col.type = "Integer" ->
            IF IsNumeral(text) THEN IntToStr(StrToInt(text)) ELSE text
      [] col.type = "Float" ->
            IF IsNumeral(text) THEN IntToStr(StrToInt(text)) \o <<".", "0">> ELSE text
      [] OTHER -> text

\* DBHandler.parse_record
parse_record(msg) == Split(msg, Sep)

\* "insert" in vals[0], "update" in vals[0]
HasInsert(v0) == \E i \in 1..Len(v0) : v0[i] = "trial entry: insert"

HasUpdate(v0) == \E i \in 1..Len(v0) : v0[i] = "trial entry: update"

\* The columns a statement gives a value: those whose part of the message is
\* not the empty string (lines 127 and 135).
GivenCols(vals, cols) == {i \in cols : vals[i + 1] # <<>>}

\* The execution of a statement raises StatementError when a value bound to a
\* Float column is no float.
BindFails(vals, cols) ==
    \E i \in cols : trials_columns[i].type = "Float" /\ ~IsFloatText(vals[i + 1])

\* The outcome of a statement: the table after it, or the exception raised
\* with the table as it was.
Done(table) == [exc |-> "", table |-> table]

Failed(e, table) == [exc |-> e, table |-> table]

\* An insert into a table that declares no primary key.
EmitInsertNoKey(vals, table) ==
    LET given == GivenCols(vals, 1..Len(trials_columns))
        row == [c \in ColNames |->
                   LET i == CHOOSE k \in 1..Len(trials_columns) : trials_columns[k].name = c
                   IN  IF i \in given THEN Stored(trials_columns[i], vals[i + 1]) ELSE NULL]
    IN  IF BindFails(vals, given) THEN Failed("StatementError", table)
        ELSE IF \E i \in 1..Len(trials_columns) :
                    ~trials_columns[i].nullable /\ i \notin given
        THEN Failed("IntegrityError", table)
        ELSE Done(table \cup {row})

\* DBHandler.emit, lines 124-128 and 139-140: the insert.
EmitInsert(vals, table) ==
    LET given == GivenCols(vals, 1..Len(trials_columns))
        row == [c \in ColNames |->
                   LET i == CHOOSE k \in 1..Len(trials_columns) : trials_columns[k].name = c
                   IN  IF i \in given THEN Stored(trials_columns[i], vals[i + 1]) ELSE NULL]
    IN  IF BindFails(vals, given) THEN Failed("StatementError", table)
        ELSE IF \E i \in 1..Len(trials_columns) :
                    ~trials_columns[i].nullable /\ i \notin given
        THEN Failed("IntegrityError", table)
        ELSE IF \E r \in table : r.variant = row.variant /\ r.iteration = row.iteration
        THEN Failed("IntegrityError", table)
        ELSE Done(table \cup {row})

\* DBHandler.emit, lines 129-136 and 139-140: the update of the rows whose
\* primary key columns equal the message's.
EmitUpdate(vals, table) ==
    LET all == 1..Len(trials_columns)
        keys == {i \in all : trials_columns[i].primary_key}
        given == GivenCols(vals, all \ keys)
        Hit(r) == \A i \in keys :
                      r[trials_columns[i].name] = Stored(trials_columns[i], vals[i + 1])
        New(r) == [c \in ColNames |->
                      LET i == CHOOSE k \in all : trials_columns[k].name = c
                      IN  IF i \in given THEN Stored(trials_columns[i], vals[i + 1]) ELSE r[c]]
    IN  IF BindFails(vals, given) THEN Failed("StatementError", table)
        ELSE Done({IF Hit(r) THEN New(r) ELSE r : r \in table})

\* DBHandler.emit
emit(msg, table) ==
    LET vals == parse_record(msg)
    IN  IF HasInsert(vals[1]) \/ HasUpdate(vals[1])
        THEN IF Len(vals) < Len(trials_columns) + 1 THEN Failed("IndexError", table)
             ELSE IF HasInsert(vals[1]) THEN EmitInsert(vals, table)
             ELSE EmitUpdate(vals, table)
        ELSE Failed("ValueError", table)

\* A logger whose database handler is added in debug mode too.
LogInfoDebugToo(msg, debug, table) ==
    IF Contains(msg, Sep) THEN emit(msg, table) ELSE Done(table)

\* Logger.info(msg) of the experiment logger: the stream handler prints, and
\* the database handler, added only when not debugging (line 157), takes the
\* messages that hold the separator (line 120).  An exception of emit goes up
\* to the caller of info.
LogInfo(msg, debug, table) ==
    IF ~debug /\ Contains(msg, Sep) THEN emit(msg, table) ELSE Done(table)

\* A select without the where clause of line 221.
RowsOfAnyVariant(table, master_variant) == table

\* _id_variant_iteration, lines 221-222: the rows the select returns.
RowsOf(table, master_variant) ==
    {r \in table : r.variant = Stored(trials_columns[1], master_variant)}

\* df["iteration"].max()
MaxOf(S) == CHOOSE n \in S : \A m \in S : m <= n

\* A lookup that counts the closed rows only.
IdAmongClosedRows(table, master_variant) ==
    LET df == {r \in RowsOf(table, master_variant) : r.cpu_time # NULL}
    IN  IF df = {} THEN 1
        ELSE MaxOf({StrToInt(r.iteration) : r \in df}) + 1

\* _id_variant_iteration
_id_variant_iteration(table, master_variant) ==
    LET df == RowsOf(table, master_variant)
    IN  IF df = {} THEN 1
        ELSE MaxOf({StrToInt(r.iteration) : r \in df}) + 1

\* ------------------------------------------------- the arguments of run()
\* Python's None, where an argument or a local may hold it.
PyNone == <<"<None>">>

NoneText == <<"N", "o", "n", "e">>

\* f"{x}"
Fmt(x) == IF x = PyNone THEN NoneText ELSE x

\* ex.name
ExName == <<"exp">>

foo == <<"f", "o", "o">>

bar == <<"b", "a", "r">>

ArgNames == {bar, foo}

\* Parameter(id_name, arg_name, vals)
Parameter(id_name, arg_name, vals) ==
    [id_name |-> id_name, arg_name |-> arg_name, vals |-> vals]

\* untracked_params: None (the default of line 239) or a collection of names
Untracked(names) == [none |-> FALSE, names |-> names]

UntrackedDefault == [none |-> TRUE, names |-> {}]

Groups == {PyNone, <<"g">>}

Extensions == {PyNone, <<"html">>, <<"pdf">>}

RunArgs(params, debug, untracked, group, ext) ==
    [params |-> params, debug |-> debug, untracked_params |-> untracked,
     group |-> group, output_extension |-> ext]

html == <<"html">>

BaseParams == <<Parameter(<<"A">>, foo, PyInt(1))>>

\* The calls of run() that processes make side by side: no parameter, or one
\* parameter, among them two values of one variant (foo, A), the same variant
\* id for another argument, and another variant id.
CoreLists ==
    {<<>>,
     BaseParams,
     <<Parameter(<<"A">>, foo, PyInt(2))>>,
     <<Parameter(<<"A">>, bar, PyInt(1))>>,
     <<Parameter(<<"B">>, foo, PyInt(1))>>}

CoreArgs == {RunArgs(pl, FALSE, Untracked({}), PyNone, html) : pl \in CoreLists}

\* The calls of run() that one process makes one after another: more
\* parameter lists with the other arguments plain, and each of the other
\* arguments varied with the parameter list fixed.
SeqLists ==
    CoreLists \cup
    {<<Parameter(<<"A">>, foo, PyStr(<<"1">>))>>,
     <<Parameter(<<"B">>, bar, PyInt(1)), Parameter(<<"A">>, foo, PyInt(1))>>,
     <<Parameter(<<"A">>, foo, PyInt(1)), Parameter(<<"B">>, bar, PyInt(1))>>,
     <<Parameter(<<"1">>, foo, PyInt(1))>>,
     <<Parameter(<<"0", "1">>, foo, PyInt(1))>>}

SeqArgs ==
    {RunArgs(pl, FALSE, Untracked({}), PyNone, html) : pl \in SeqLists}
    \cup {RunArgs(BaseParams, TRUE, UntrackedDefault, PyNone, html)}
    \cup {RunArgs(BaseParams, FALSE, u, PyNone, html) : u \in {UntrackedDefault, Untracked({foo})}}
    \cup {RunArgs(BaseParams, FALSE, Untracked({}), g, html) : g \in Groups}
    \cup {RunArgs(BaseParams, FALSE, Untracked({}), PyNone, e) : e \in Extensions}

\* ------------------------------------------------------------- run(): text
\* REPO.head.commit.hexsha
HeadCommit == <<"c0ffee">>

DebugCommit == <<"0", "0", "0", "0", "0", "0", "0">>

\* "_" + six random characters (line 288)
debug_suffix == <<"_", "3d9a1c">>

\* f"{cpu_time}" of the process time a run took
CpuText == <<"0.25">>

\* lines 270-273: the table named with the group is computed, and the name
\* without it is the one handed to _init_logger.
TableName(group) ==
    <<"trials_">> \o ExName \o (IF group = PyNone THEN <<>> ELSE <<" ">> \o group)

TableNames == {TableName(g) : g \in Groups}

LoggerTable(group) == <<"trials_">> \o ExName

\* The variant ids joined in the order of the list.
MasterVariantUnsorted(params) ==
    Join(<<"-">>, [k \in 1..Len(params) |-> params[k].id_name])

\* lines 279-283
MasterVariant(params) ==
    LET arg_names == [k \in 1..Len(params) |-> params[k].arg_name]
        id_names == [k \in 1..Len(params) |-> params[k].id_name]
    IN  Join(<<"-">>, Permute(id_names, SortPerm(Len(arg_names), StrBelow(arg_names))))

\* lines 289-300
NewFilename(group, master_variant, iteration, debug, ext) ==
    LET base == <<"trial_">> \o ExName
                \o (IF group = PyNone THEN <<>> ELSE <<"_">> \o group)
                \o <<"_">> \o master_variant \o <<"_">> \o IntToStr(iteration)
                \o (IF debug THEN debug_suffix ELSE <<>>)
    IN  IF ext = PyNone THEN PyNone
        ELSE IF ext = <<"html">> THEN base \o <<".html">>
        ELSE IF ext = <<"ipynb">> THEN base \o <<".ipynb">>
        ELSE base

\* lines 302-310
InsertMsg(master_variant, iteration, commit) ==
    <<"trial entry: insert">> \o Sep \o master_variant \o Sep \o IntToStr(iteration)
        \o Sep \o commit \o Sep \o Sep \o Sep \o NoneText

\* lines 313-320
RunningMsg(master_variant, iteration, commit, debug) ==
    <<"Running experiment ">> \o ExName \o <<", simulation variant ">> \o master_variant
        \o <<", iteration ">> \o IntToStr(iteration) \o <<" at time: ", "<utc now>">>
        \o <<".  Current repo hash: ">> \o commit
        \o (IF debug THEN <<".  In debugging mode.">> ELSE <<>>)

\* lines 338-342
FinishedMsg(metrics) ==
    <<"Finished experiment at time: ", "<utc now>", ".  Results: ">> \o Fmt(metrics)

\* lines 350-358
UpdateMsg(master_variant, iteration, commit, cpu_time, metrics, new_filename) ==
    <<"trial entry: update">> \o Sep \o master_variant \o Sep \o IntToStr(iteration)
        \o Sep \o commit \o Sep \o cpu_time \o Sep \o Fmt(metrics) \o Sep \o Fmt(new_filename)

\* What the isolated environment did with the notebook: whether a cell raised
\* (then the final cell has no output), and what the final cell printed: text
\* with a 'main' entry, or text without one.
MetricTexts == {<<"7">>, <<"x", "-", "-", "y">>}

Notebooks ==
    {[raised |-> TRUE, output |-> "none", main |-> <<>>],
     [raised |-> FALSE, output |-> "nomain", main |-> <<>>]}
    \cup {[raised |-> FALSE, output |-> "main", main |-> m] : m \in MetricTexts}

\* _parse_results: the group of the match, and AttributeError when the search
\* finds no match (re.search returns None).
_parse_results(nb) ==
    IF nb.output = "main" THEN [exc |-> "", metrics |-> nb.main]
    ELSE [exc |-> "AttributeError", metrics |-> PyNone]

\* _run_in_notebook, lines 433-443: the exception it lets through (exc), and
\* the metrics and the captured exception it returns.
_run_in_notebook(nb) ==
    LET exception == IF nb.raised THEN "CellExecutionError" ELSE ""
    IN  IF nb.output = "none"
        THEN [exc |-> "", metrics |-> PyNone, exception |-> exception]
        ELSE [exc |-> _parse_results(nb).exc, metrics |-> _parse_results(nb).metrics,
              exception |-> exception]

\* _save_notebook: the exception it raises
_save_notebook(extension) ==
    IF extension \in {<<"html">>, <<"ipynb">>} THEN "" ELSE "ValueError"

\* ------------------------------------------------------------------- state
\* The processes that call run().
Runs == {1, 2}

VARIABLES
    trials,     \* the trials tables of the ledger: table name -> set of rows
    variants,   \* the variant tables: argument name -> set of rows (name, params)
    pc,         \* where each process is in run()
    args,       \* the arguments of its call of run()
    loc,        \* the locals of its call of run()
    ncalls,     \* the calls of run() made so far
    registered, \* history: the value each row of a variant table was made from
    inp,        \* the argument of a function called on its own
    out         \* what that call gave

\* The state of the calls of run(), and the state of a call of one function.
runvars == <<trials, variants, pc, args, loc, ncalls, registered>>

purevars == <<inp, out>>

vars == <<trials, variants, pc, args, loc, ncalls, registered, inp, out>>

\* No call of a function on its own was made.
NoOut == [done |-> FALSE, op |-> "", res |-> Ok(<<>>)]

NoArgs == RunArgs(<<>>, FALSE, UntrackedDefault, PyNone, PyNone)

\* The locals of run(): i, the parameter the loop of line 274 is at; df, the
\* rows _verify_variant_name read (line 191); exc, the exception
\* _run_in_notebook returned; raised and site, the exception that ended the
\* call and the step that raised it; steps, the steps completed so far.
InitLoc ==
    [i |-> 1, df |-> {}, master_variant |-> <<>>, iteration |-> 0,
     new_filename |-> PyNone, commit |-> <<>>, metrics |-> PyNone, exc |-> "",
     raised |-> "", site |-> "", steps |-> <<>>]

Running == {"register", "verify", "open", "exec", "close"}

Init ==
    /\ trials = [t \in TableNames |-> {}]
    /\ variants = [a \in ArgNames |-> {}]
    /\ pc = [r \in Runs |-> "idle"]
    /\ args = [r \in Runs |-> NoArgs]
    /\ loc = [r \in Runs |-> InitLoc]
    /\ ncalls = 0
    /\ registered = {}
    /\ inp = PyNone
    /\ out = NoOut

\* An exception of the registration is caught and the call goes on with the
\* next parameter.
PassOverWith(r, l, e, site) ==
    /\ pc' = [pc EXCEPT ![r] = IF site = "verify" THEN "register" ELSE "raised"]
    /\ loc' = [loc EXCEPT ![r] = [l EXCEPT !.raised = e, !.site = site,
                                           !.i = IF site = "verify" THEN @ + 1 ELSE @]]

\* The call ends with exception e, raised at site, its locals being l.
RaiseWith(r, l, e, site) ==
    /\ pc' = [pc EXCEPT ![r] = "raised"]
    /\ loc' = [loc EXCEPT ![r] = [l EXCEPT !.raised = e, !.site = site]]

RaiseOut(r, e, site) == RaiseWith(r, loc[r], e, site)

\* run(), lines 262-273, in a clean repository: the call, with arguments a,
\* and _init_logger.
Call(r, a) ==
    /\ pc[r] \notin Running
    /\ args' = [args EXCEPT ![r] = a]
    /\ pc' = [pc EXCEPT ![r] = "register"]
    /\ loc' = [loc EXCEPT ![r] = InitLoc]
    /\ ncalls' = ncalls + 1
    /\ UNCHANGED <<trials, variants, registered>>
    /\ UNCHANGED purevars

\* run(), lines 274-278, for one parameter, and _verify_variant_name up to
\* its read of the variant table (lines 179-192).
Register(r) ==
    LET a == args[r]
        param == a.params[loc[r].i]
    IN  /\ pc[r] = "register"
        /\ loc[r].i <= Len(a.params)
        /\ IF ~a.debug /\ a.untracked_params.none
           THEN RaiseOut(r, "TypeError", "untracked")
           ELSE IF a.debug \/ param.arg_name \in a.untracked_params.names
           THEN /\ loc' = [loc EXCEPT ![r].i = @ + 1]
                /\ UNCHANGED pc
           ELSE IF IsMapping(param.vals) /\ ~Orderable(param.vals.keys)
           THEN RaiseOut(r, "TypeError", "verify")
           ELSE /\ loc' = [loc EXCEPT ![r].df =
                               {row \in variants[param.arg_name] : row.name = param.id_name}]
                /\ pc' = [pc EXCEPT ![r] = "verify"]
        /\ UNCHANGED <<trials, variants, args, ncalls, registered>>
        /\ UNCHANGED purevars

\* An insert that replaces the row of the name, if there is one.
VariantUpsert(tb, name, text) ==
    Done({row \in tb : row.name # name} \cup {[name |-> name, params |-> text]})

\* _verify_variant_name, lines 194-195: the insert into the variant table,
\* whose primary key is the name (line 64).
VariantInsert(tb, name, text) ==
    IF \E row \in tb : row.name = name THEN Failed("IntegrityError", tb)
    ELSE Done(tb \cup {[name |-> name, params |-> text]})

\* _verify_variant_name, lines 193-202: the insert of a new variant, or the
\* comparison with the stored one.
Verify(r) ==
    LET param == args[r].params[loc[r].i]
        str == CanonicalStr(param.vals)
        res == VariantInsert(variants[param.arg_name], param.id_name, str.text)
        next == [loc EXCEPT ![r].i = @ + 1, ![r].steps = Append(@, "register")]
    IN  /\ pc[r] = "verify"
        /\ IF str.exc # ""
           THEN RaiseOut(r, str.exc, "verify") /\ UNCHANGED <<variants, registered>>
           ELSE IF loc[r].df = {}
           THEN IF res.exc # ""
                THEN RaiseOut(r, res.exc, "verify") /\ UNCHANGED <<variants, registered>>
                ELSE /\ variants' = [variants EXCEPT ![param.arg_name] = res.table]
                     /\ registered' = registered \cup {param}
                     /\ pc' = [pc EXCEPT ![r] = "register"]
                     /\ loc' = next
           ELSE IF \E row \in loc[r].df : row.params # str.text
           THEN RaiseOut(r, "RuntimeError", "verify") /\ UNCHANGED <<variants, registered>>
           ELSE /\ pc' = [pc EXCEPT ![r] = "register"]
                /\ loc' = next
                /\ UNCHANGED <<variants, registered>>
        /\ UNCHANGED <<trials, args, ncalls>>
        /\ UNCHANGED purevars

\* run(), lines 279-287: the master variant key and the iteration.
Identify(r) ==
    LET a == args[r]
        master_variant == MasterVariant(a.params)
        iteration == IF a.debug THEN 0
                     ELSE _id_variant_iteration(trials[LoggerTable(a.group)], master_variant)
    IN  /\ pc[r] = "register"
        /\ loc[r].i > Len(a.params)
        /\ loc' = [loc EXCEPT ![r].master_variant = master_variant,
                              ![r].iteration = iteration,
                              ![r].steps = @ \o <<"key", "iteration">>]
        /\ pc' = [pc EXCEPT ![r] = "open"]
        /\ UNCHANGED <<trials, variants, args, ncalls, registered>>
        /\ UNCHANGED purevars

\* run(), lines 288-310: the file name, the commit and the open insert.
Open(r) ==
    LET a == args[r]
        l == loc[r]
        commit == IF a.debug THEN DebugCommit ELSE HeadCommit
        tn == LoggerTable(a.group)
        res == LogInfo(InsertMsg(l.master_variant, l.iteration, commit), a.debug, trials[tn])
    IN  /\ pc[r] = "open"
        /\ IF res.exc # ""
           THEN RaiseOut(r, res.exc, "open") /\ UNCHANGED trials
           ELSE /\ trials' = [trials EXCEPT ![tn] = res.table]
                /\ pc' = [pc EXCEPT ![r] = "exec"]
                /\ loc' = [loc EXCEPT
                       ![r].new_filename = NewFilename(a.group, l.master_variant, l.iteration,
                                                       a.debug, a.output_extension),
                       ![r].commit = commit,
                       ![r].steps = Append(@, "open")]
        /\ UNCHANGED <<variants, args, ncalls, registered>>
        /\ UNCHANGED purevars

\* run(), lines 311-348: the two log lines, the experiment in the isolated
\* environment and the saving of the notebook.
Execute(r) ==
    LET a == args[r]
        l == loc[r]
        table == trials[LoggerTable(a.group)]
        started == LogInfo(RunningMsg(l.master_variant, l.iteration, l.commit, a.debug),
                           a.debug, table)
    IN  /\ pc[r] = "exec"
        /\ \E nb \in Notebooks :
               LET ran == _run_in_notebook(nb)
                   got == [l EXCEPT !.metrics = ran.metrics, !.exc = ran.exception]
                   finished == LogInfo(FinishedMsg(ran.metrics), a.debug, table)
               IN  IF started.exc # "" THEN RaiseOut(r, started.exc, "log")
                   ELSE IF ran.exc # "" THEN RaiseOut(r, ran.exc, "notebook")
                   ELSE IF finished.exc # "" THEN RaiseWith(r, got, finished.exc, "finished-log")
                   ELSE IF l.new_filename # PyNone /\ _save_notebook(a.output_extension) # ""
                   THEN RaiseWith(r, got, _save_notebook(a.output_extension), "save")
                   ELSE /\ pc' = [pc EXCEPT ![r] = "close"]
                        /\ loc' = [loc EXCEPT ![r] = [got EXCEPT !.steps = Append(@, "execute")]]
        /\ UNCHANGED <<trials, variants, args, ncalls, registered>>
        /\ UNCHANGED purevars

\* run(), lines 359-360: how the call ends after the close update, exc being
\* the exception _run_in_notebook returned.
AfterClose(exc) == IF exc # "" THEN "raised" ELSE "returned"

\* run(), lines 350-360: the close update, then the exception of the
\* experiment, if it raised one.
Close(r) ==
    LET a == args[r]
        l == loc[r]
        tn == LoggerTable(a.group)
        res == LogInfo(UpdateMsg(l.master_variant, l.iteration, l.commit, CpuText,
                                 l.metrics, l.new_filename), a.debug, trials[tn])
    IN  /\ pc[r] = "close"
        /\ IF res.exc # ""
           THEN RaiseOut(r, res.exc, "close") /\ UNCHANGED trials
           ELSE /\ trials' = [trials EXCEPT ![tn] = res.table]
                /\ pc' = [pc EXCEPT ![r] = AfterClose(l.exc)]
                /\ loc' = [loc EXCEPT ![r].raised = l.exc,
                                      ![r].site = IF l.exc # "" THEN "reraise" ELSE "",
                                      ![r].steps = Append(@, "close")]
        /\ UNCHANGED <<variants, args, ncalls, registered>>
        /\ UNCHANGED purevars

\* The process is ended from outside while it is inside run(); its arguments
\* and locals are gone with it.
Kill(r) ==
    /\ pc[r] \in Running
    /\ pc' = [pc EXCEPT ![r] = "killed"]
    /\ args' = [args EXCEPT ![r] = NoArgs]
    /\ loc' = [loc EXCEPT ![r] = InitLoc]
    /\ UNCHANGED <<trials, variants, ncalls, registered>>
    /\ UNCHANGED purevars

\* The steps of a process inside run().
Step(r) ==
    \/ Register(r)
    \/ Verify(r)
    \/ Identify(r)
    \/ Open(r)
    \/ Execute(r)
    \/ Close(r)
    \/ Kill(r)

\* Processes call run() side by side.
Next ==
    \E r \in Runs :
        \/ ncalls < MaxCalls /\ \E a \in CoreArgs : Call(r, a)
        \/ Step(r)

Spec == Init /\ [][Next]_vars

\* One process calls run() again and again.
NextSeq ==
    \/ ncalls < MaxSeqCalls /\ \E a \in SeqArgs : Call(1, a)
    \/ Step(1)

SpecSeq == Init /\ [][NextSeq]_vars

\* ------------------------------------------- the canonical string, alone
\* The sequences of at most n elements of S.
SeqsUpTo(S, n) == UNION {[1..k -> S] : k \in 0..n}

mod == <<"mod">>

\* lambda: 0, in a module, at two addresses (two processes)
Lambda(addr) == PyFunc("function", <<"<lambda>">>, mod, <<"<lambda>">>, TRUE, TRUE, addr)

\* def f, at the top of an imported module
ModuleFunc(addr) == PyFunc("function", <<"f">>, mod, <<"f">>, TRUE, TRUE, addr)

\* def f, in the script that is run
MainFunc == PyFunc("function", <<"f">>, <<"__main__">>, <<"f">>, TRUE, TRUE, <<"0x1">>)

\* The function objects cleanstr is called on: every answer to each of its
\* tests.
FuncObjs ==
    {PyFunc(kind, name, module, qualname, loaded, resolves, <<"0x1">>) :
        kind \in FuncTypes,
        name \in {<<"f">>, <<"<lambda>">>},
        module \in {mod, <<"__main__">>},
        qualname \in {<<"f">>, <<"g", ".", "<locals>", ".", "f">>},
        loaded \in BOOLEAN,
        resolves \in BOOLEAN}

\* The values inside a container.
Atoms ==
    {PyInt(1), PyInt(2), PyStr(<<"a">>), Lambda(<<"0x1">>), ModuleFunc(<<"0x1">>), MainFunc}

\* The keys of a dict, in insertion order.
KeySeqs ==
    {<<>>, <<PyStr(<<"a">>)>>, <<PyStr(<<"b">>)>>,
     <<PyStr(<<"a">>), PyStr(<<"b">>)>>, <<PyStr(<<"b">>), PyStr(<<"a">>)>>,
     <<PyInt(1)>>, <<PyInt(1), PyStr(<<"a">>)>>}

\* Containers of atoms.
Flat ==
    {PyList(x) : x \in SeqsUpTo(Atoms, MaxItems)}
    \cup {PyTuple(x) : x \in SeqsUpTo(Atoms, MaxItems)}
    \cup UNION {{PyDict(k, x) : x \in [1..Len(k) -> Atoms]} : k \in KeySeqs}

\* Containers of one container, alone or beside an int.
Nested ==
    UNION {{PyList(<<x>>), PyTuple(<<x>>), PyDict(<<PyStr(<<"x">>)>>, <<x>>),
            PyList(<<x, PyInt(1)>>)} : x \in Flat}

\* The values of Parameter.vals that are canonicalized.
CanonVals == Atoms \cup {Lambda(<<"0x2">>), ModuleFunc(<<"0x2">>)} \cup Flat \cup Nested

InitCanon ==
    /\ trials = [t \in TableNames |-> {}]
    /\ variants = [a \in ArgNames |-> {}]
    /\ pc = [r \in Runs |-> "idle"]
    /\ args = [r \in Runs |-> NoArgs]
    /\ loc = [r \in Runs |-> InitLoc]
    /\ ncalls = 0
    /\ registered = {}
    /\ inp \in CanonVals \cup FuncObjs
    /\ out = NoOut

\* _verify_variant_name, lines 182-190, and the str(vals) of line 194, of
\* param.vals = inp.
Canonicalize ==
    /\ ~out.done
    /\ inp \in CanonVals
    /\ out' = [done |-> TRUE, op |-> "canonical", res |-> CanonicalStr(inp)]
    /\ UNCHANGED <<inp, runvars>>

\* cleanstr(inp)
Clean ==
    /\ ~out.done
    /\ inp \in Atoms \cup FuncObjs
    /\ out' = [done |-> TRUE, op |-> "cleanstr", res |-> cleanstr(inp)]
    /\ UNCHANGED <<inp, runvars>>

NextCanon == Canonicalize \/ Clean

SpecCanon == InitCanon /\ [][NextCanon]_vars

\* One process calls run() with values of every kind: ints, a mapping that
\* holds a lambda, a list that holds a function of __main__, and a function
\* of a module, alone and in a list, at the address it has in each of two
\* processes; and a variant id that ends with '-'.
RegLists ==
    {<<Parameter(<<"A">>, foo, PyInt(1))>>,
     <<Parameter(<<"B", "-">>, foo, PyInt(1))>>,
     <<Parameter(<<"A">>, foo, PyInt(2))>>,
     <<Parameter(<<"B">>, bar, PyInt(1)), Parameter(<<"A">>, foo, PyInt(2))>>,
     <<Parameter(<<"B">>, bar, PyInt(1)),
       Parameter(<<"L">>, foo, PyDict(<<PyStr(<<"a">>)>>, <<Lambda(<<"0x1">>)>>))>>,
     <<Parameter(<<"M">>, foo, PyList(<<MainFunc>>))>>}
    \cup {<<Parameter(<<"F">>, foo, ModuleFunc(a))>> : a \in {<<"0x1">>, <<"0x2">>}}
    \cup {<<Parameter(<<"G">>, foo, PyList(<<ModuleFunc(a)>>))>> : a \in {<<"0x1">>, <<"0x2">>}}

\* Each list in a tracked call and in a debug call.
RegArgs ==
    {RunArgs(pl, FALSE, Untracked({}), PyNone, html) : pl \in RegLists}
    \cup {RunArgs(pl, TRUE, UntrackedDefault, PyNone, html) : pl \in RegLists}

NextReg ==
    \/ ncalls < MaxRegCalls /\ \E a \in RegArgs : Call(1, a)
    \/ Step(1)

SpecReg == Init /\ [][NextReg]_vars

\* --------------------------------------------------------------- properties
\* The call of process r is one made with debug off that is running or ended.
NonDebug(r) == pc[r] \notin {"idle", "killed"} /\ ~args[r].debug

\* The call of process r has completed step s.
Did(r, s) == \E k \in 1..Len(loc[r].steps) : loc[r].steps[k] = s

\* The trials table the call of process r reads and writes, the rows of its
\* master variant key, and the row of its trial.
TableOf(r) == trials[LoggerTable(args[r].group)]

KeyRows(r) == RowsOf(TableOf(r), loc[r].master_variant)

TrialRows(r) == {x \in KeyRows(r) : x.iteration = IntToStr(loc[r].iteration)}

C2_RaceHasOneWinner ==
    [][\A r1, r2 \in Runs :
          (/\ r1 # r2
           /\ pc[r1] = "open" /\ ~args[r1].debug /\ NonDebug(r2)
           /\ loc[r2].master_variant = loc[r1].master_variant
           /\ loc[r2].iteration = loc[r1].iteration
           /\ pc'[r1] \notin {"open", "killed"}) =>
              \/ /\ pc[r2] = "open"
                 /\ pc'[r1] = "exec"
                 /\ trials' # trials
              \/ /\ Did(r2, "open")
                 /\ pc'[r1] = "raised" /\ loc'[r1].site = "open"
                 /\ trials' = trials]_vars

\* C3: a non-debug run whose open insert succeeded and whose execution in the
\* isolated environment returned, normally or with a cell execution error,
\* has its row closed (cpu_time written) when run() returns or raises.
C3_OpenedTrialIsClosed ==
    \A r \in Runs :
        (/\ NonDebug(r) /\ pc[r] \in {"returned", "raised"}
         /\ Did(r, "open") /\ loc[r].site # "log") =>
            \E x \in TrialRows(r) : x.cpu_time # NULL

\* C4: when the experiment raised inside the isolated environment, run() ends
\* by raising that same exception, after the close update; the exception is
\* never swallowed or replaced.
C4_ExperimentErrorReraised ==
    \A r \in Runs :
        (pc[r] \in {"returned", "raised"} /\ loc[r].exc # "") =>
            /\ pc[r] = "raised"
            /\ loc[r].raised = loc[r].exc /\ loc[r].site = "reraise"
            /\ Did(r, "close")
            /\ ~args[r].debug => \E x \in TrialRows(r) : x.cpu_time # NULL

\* C5: right after the open insert of a non-debug run, the new row holds the
\* variant, the iteration and the commit, and cpu_time, results and filename
\* are null.
C5_OpenRowShape ==
    \A r \in Runs :
        (NonDebug(r) /\ pc[r] = "exec") =>
            \E x \in TrialRows(r) :
                /\ x.commit = HeadCommit
                /\ x.cpu_time = NULL /\ x.results = NULL /\ x.filename = NULL

\* C6: registering a parameter whose (argument name, variant id) is stored,
\* with a value that differs from the value the stored row was made from,
\* ends with RuntimeError (Variant-Conflict).
C6_ConflictDetected ==
    [][\A r \in Runs :
          (pc[r] = "verify" /\ pc'[r] \notin {"verify", "killed"}) =>
              LET param == args[r].params[loc[r].i]
              IN  (/\ loc[r].df # {}
                   /\ \E q \in registered :
                          /\ q.arg_name = param.arg_name /\ q.id_name = param.id_name
                          /\ q.vals # param.vals) =>
                      pc'[r] = "raised" /\ loc'[r].raised = "RuntimeError"]_vars

\* C7: two runs have the same master variant key if and only if they have the
\* same set of (argument name, variant id) pairs.
C7_KeyIffSamePairs ==
    \A r1, r2 \in Runs :
        (Did(r1, "key") /\ Did(r2, "key")) =>
            LET Pairs(params) ==
                    {<<params[k].arg_name, params[k].id_name>> : k \in 1..Len(params)}
            IN  (loc[r1].master_variant = loc[r2].master_variant)
                    <=> (Pairs(args[r1].params) = Pairs(args[r2].params))

\* C8: in non-debug runs made one after another, the iteration of a run is
\* larger than every iteration its master key has in the table, whether the
\* earlier runs succeeded, failed or left an open row; the row it then writes
\* carries that iteration, the largest of the key.
C8_IterationsIncrease ==
    \A r \in Runs :
        NonDebug(r) =>
            /\ pc[r] = "open" =>
                   \A x \in KeyRows(r) : StrToInt(x.iteration) < loc[r].iteration
            /\ Did(r, "open") =>
                   /\ TrialRows(r) # {}
                   /\ \A x \in KeyRows(r) : StrToInt(x.iteration) <= loc[r].iteration

\* The third run of a key has written iteration 3, the first run having
\* closed its row and the second having left its row open.
C8_Witness ==
    /\ NonDebug(1) /\ pc[1] = "exec" /\ loc[1].iteration = 3
    /\ \E x \in KeyRows(1) : x.iteration = <<"1">> /\ x.cpu_time # NULL
    /\ \E x \in KeyRows(1) : x.iteration = <<"2">> /\ x.cpu_time = NULL

\* C9: a trials table holds at most one row for each (master variant key,
\* iteration) pair, however runs interleave.
C9_OneRowPerTrial ==
    \A t \in TableNames :
        \A x, y \in trials[t] :
            (x.variant = y.variant /\ x.iteration = y.iteration) => x = y

\* The open insert of a run was rejected because the row of its key and
\* iteration was there already.
C9_Witness ==
    \E r \in Runs :
        /\ NonDebug(r) /\ pc[r] = "raised"
        /\ loc[r].site = "open" /\ loc[r].raised = "IntegrityError"
        /\ TrialRows(r) # {}

\* C10: every non-debug call, untracked_params given or left at its default,
\* performs its steps in order: one registration for each tracked parameter,
\* the key, the iteration, the open insert, the execution and the close
\* update; a call that ended has completed them all or was stopped by an
\* error of the step that was next.
C10_StepsInOrder ==
    \A r \in Runs :
        NonDebug(r) =>
            LET a == args[r]
                Tracked(q) == a.untracked_params.none
                                  \/ q.arg_name \notin a.untracked_params.names
                plan == [k \in 1..Len(SelectSeq(a.params, Tracked)) |-> "register"]
                            \o <<"key", "iteration", "open", "execute", "close">>
                done == loc[r].steps
                site == loc[r].site
                StepOf == CASE site = "verify" -> "register"
                            [] site = "open" -> "open"
                            [] site \in {"log", "notebook", "finished-log", "save"} -> "execute"
                            [] site = "close" -> "close"
                            [] OTHER -> "none"
            IN  /\ Len(done) <= Len(plan)
                /\ done = SubSeq(plan, 1, Len(done))
                /\ pc[r] = "returned" => done = plan
                /\ pc[r] = "raised" =>
                       \/ site = "reraise" /\ done = plan
                       \/ Len(done) < Len(plan) /\ plan[Len(done) + 1] = StepOf

\* C11: a call in which the registration of a parameter failed (the value
\* cannot be given a reproducible string, or it conflicts with the stored
\* one) has ended there, with no open insert and no execution done.
C11_FailedRegistrationStops ==
    \A r \in Runs :
        loc[r].site = "verify" =>
            /\ pc[r] = "raised"
            /\ loc[r].raised \in {"ValueError", "ImportError", "RuntimeError", "TypeError",
                                  "IntegrityError"}
            /\ ~Did(r, "open") /\ ~Did(r, "execute") /\ ~Did(r, "close")

\* The second parameter of a call was refused for the lambda it holds, after
\* the first was registered.
C11_Witness ==
    /\ pc[1] = "raised" /\ loc[1].site = "verify" /\ loc[1].raised = "ValueError"
    /\ loc[1].i = 2 /\ variants[bar] # {}
    /\ trials[LoggerTable(PyNone)] = {}

RECURSIVE Reorderings(_)
\* The values equal to v that differ from it at most in the insertion order
\* of the keys of the mappings in it, at any depth.
Reorderings(v) ==
    IF v.t \in {"list", "tuple", "dict"}
    THEN LET n == Len(v.items)
             inner == {f \in [1..n -> UNION {Reorderings(v.items[i]) : i \in 1..n}] :
                          \A i \in 1..n : f[i] \in Reorderings(v.items[i])}
             orders == IF v.t = "dict"
                       THEN {p \in [1..n -> 1..n] : \A i, j \in 1..n : i # j => p[i] # p[j]}
                       ELSE {[i \in 1..n |-> i]}
         IN  {[v EXCEPT !.keys = IF v.t = "dict" THEN Permute(v.keys, p) ELSE v.keys,
                        !.items = Permute(f, p)] : f \in inner, p \in orders}
    ELSE {v}

\* C12: the canonical string of a value is the same for every insertion order
\* of the keys of a mapping in it, be the mapping the value itself or nested
\* inside it.
C12_KeyOrderIrrelevant ==
    (out.done /\ out.op = "canonical") =>
        \A w \in Reorderings(inp) : CanonicalStr(w) = out.res

RECURSIVE HoldsLambda(_)
\* v is a lambda, or a container that holds one at any depth.
HoldsLambda(v) ==
    \/ v.t \in FuncTypes /\ v.fn.name = <<"<lambda>">>
    \/ \E i \in 1..Len(v.items) : HoldsLambda(v.items[i])

\* C13: canonicalizing a value that holds a lambda, wherever it sits, fails
\* with Unreproducible-Value: the ValueError of the lambda, or the
\* ImportError of another function of the value that is met before it.
C13_LambdaRefused ==
    (out.done /\ out.op = "canonical" /\ HoldsLambda(inp)) =>
        out.res.exc \in {"ValueError", "ImportError"}

\* C14: for a list or a tuple, sortable or not, each element is canonicalized
\* in its turn: a function among the elements is formatted as cleanstr
\* formats it, or the canonicalization fails when cleanstr refuses it.
C14_ElementsCanonicalized ==
    (out.done /\ out.op = "canonical" /\ inp.t \in {"list", "tuple"}) =>
        \A i \in 1..Len(inp.items) :
            inp.items[i].t \in FuncTypes =>
                IF cleanstr(inp.items[i]).exc # ""
                THEN out.res.exc # ""
                ELSE out.res.exc # "" \/ Contains(out.res.text, cleanstr(inp.items[i]).text)

\* C15: for a function, method or builtin that is no lambda, cleanstr returns
\* '<type module.qualname>' exactly when the module is not '__main__', the
\* qualified name is not in a local scope, the module is loaded and the
\* qualified name gives the object back; in every other case it raises
\* ImportError.
C15_FunctionString ==
    (out.done /\ out.op = "cleanstr" /\ inp.t \in FuncTypes /\ inp.fn.name # <<"<lambda>">>) =>
        LET importable ==
                /\ inp.fn.module # <<"__main__">>
                /\ \A i \in 1..Len(inp.fn.qualname) : inp.fn.qualname[i] # "<locals>"
                /\ inp.fn.loaded
                /\ inp.fn.resolves
        IN  IF importable
            THEN /\ out.res.exc = ""
                 /\ out.res.text = <<"<", inp.t, " ">> \o inp.fn.module \o <<".">>
                                       \o inp.fn.qualname \o <<">">>
            ELSE out.res.exc = "ImportError"

\* cleanstr has returned '<function mod.f>'.
C15_Witness ==
    /\ out.done /\ out.op = "cleanstr" /\ inp.t = "function"
    /\ out.res = Ok(<<"<", "function", " ", "mod", ".", "f", ">">>)

RECURSIVE Unaddressed(_)
\* The value v apart from the addresses its functions have in a process.
Unaddressed(v) ==
    [v EXCEPT !.fn.addr = <<>>,
              !.keys = [i \in 1..Len(v.keys) |-> Unaddressed(v.keys[i])],
              !.items = [i \in 1..Len(v.items) |-> Unaddressed(v.items[i])]]

\* C16: registering again the (argument name, variant id, value) that a row
\* of the variant table was made from succeeds and leaves the variant tables
\* as they were.
C16_RegistrationIdempotent ==
    [][\A r \in Runs :
          (pc[r] = "verify" /\ pc'[r] \notin {"verify", "killed"}) =>
              LET param == args[r].params[loc[r].i]
              IN  (\E q \in registered :
                       /\ q.arg_name = param.arg_name /\ q.id_name = param.id_name
                       /\ Unaddressed(q.vals) = Unaddressed(param.vals)) =>
                      pc'[r] # "raised" /\ variants' = variants]_vars

\* C17: under any interleaving of runs, a row of a variant table (variant id
\* and canonical string) that exists is there, unchanged, ever after.
C17_VariantRowsKept ==
    [][\A a \in ArgNames : \A row \in variants[a] : row \in variants'[a]]_vars

\* A registration under a stored variant id was refused, and the row of that
\* id holds the string it was made with.
C17_Witness ==
    \E r \in Runs :
        /\ pc[r] = "raised" /\ loc[r].site = "verify"
        /\ loc[r].raised \in {"RuntimeError", "IntegrityError"}
        /\ LET param == args[r].params[loc[r].i]
           IN  \E row \in variants[param.arg_name] :
                   /\ row.name = param.id_name
                   /\ row.params # CanonicalStr(param.vals).text
                   /\ \E q \in registered :
                          /\ q.arg_name = param.arg_name /\ q.id_name = param.id_name
                          /\ CanonicalStr(q.vals).text = row.params

\* The orders of a list of n parameters.
ListOrders(n) == {p \in [1..n -> 1..n] : \A i, j \in 1..n : i # j => p[i] # p[j]}

\* C18: the master variant key of a run is its variant ids joined with '-' in
\* ascending order of their argument names, and when the argument names are
\* pairwise distinct every permutation of the parameter list has the same key.
C18_MasterKeySorted ==
    \A r \in Runs :
        Did(r, "key") =>
            LET params == args[r].params
                n == Len(params)
            IN  (\A i, j \in 1..n : i # j => params[i].arg_name # params[j].arg_name) =>
                    /\ \E p \in ListOrders(n) :
                           /\ \A i, j \in 1..n :
                                  i < j => StrLess(params[p[i]].arg_name, params[p[j]].arg_name)
                           /\ loc[r].master_variant
                                  = Join(<<"-">>, [i \in 1..n |-> params[p[i]].id_name])
                    /\ \A q \in ListOrders(n) :
                           MasterVariant(Permute(params, q)) = loc[r].master_variant

\* The list [("foo", "A"), ("bar", "B")] got the key "B-A".
C18_Witness ==
    \E r \in Runs :
        /\ Did(r, "key")
        /\ Len(args[r].params) = 2
        /\ args[r].params[1].arg_name = foo /\ args[r].params[1].id_name = <<"A">>
        /\ args[r].params[2].arg_name = bar /\ args[r].params[2].id_name = <<"B">>
        /\ loc[r].master_variant = <<"B", "-", "A">>

\* The row x is the one of master key key and iteration it, equality being
\* the table's.
IsTrialRow(x, key, it) ==
    x.variant = Stored(trials_columns[1], key) /\ x.iteration = IntToStr(it)

\* C19: the close update of a run changes only the row of the trials table
\* whose (variant, iteration) equal the run's master key and iteration, leaves
\* the variant and the iteration of that row as they were and every other row
\* unchanged, and, when there is no such row, changes nothing and does not
\* raise.
C19_CloseUpdateFrame ==
    [][\A r \in Runs :
          (pc[r] = "close" /\ pc'[r] \notin {"close", "killed"}) =>
              LET tn == LoggerTable(args[r].group)
                  key == loc[r].master_variant
                  it == loc[r].iteration
              IN  /\ \A x \in trials[tn] : ~IsTrialRow(x, key, it) => x \in trials'[tn]
                  /\ \A y \in trials'[tn] :
                         \/ y \in trials[tn]
                         \/ IsTrialRow(y, key, it) /\ \E x \in trials[tn] : IsTrialRow(x, key, it)
                  /\ (~\E x \in trials[tn] : IsTrialRow(x, key, it)) =>
                         /\ trials' = trials
                         /\ ~(pc'[r] = "raised" /\ loc'[r].site = "close")]_vars

\* C20: once the isolated environment has completed or raised a cell
\* execution error, _run_in_notebook returns its triple (the metrics being
\* None when the final cell's output gives no result) and never raises: no
\* call of run() ends with an exception that came out of _run_in_notebook.
C20_NotebookCallReturns ==
    \A r \in Runs : ~(pc[r] = "raised" /\ loc[r].site = "notebook")

\* C21: trials of different groups are kept in different trials tables: the
\* iteration a non-debug run gets for its master key is the one looked up in
\* the table of its own group, so a trial opened under another group does not
\* change it.
C21_GroupsSegregated ==
    \A r \in Runs :
        (NonDebug(r) /\ pc[r] = "open") =>
            loc[r].iteration
                = _id_variant_iteration(trials[TableName(args[r].group)],
                                        loc[r].master_variant)

\* C22: the ledger message is lossless: the open insert of a non-debug run
\* writes a row that holds the run's master key, iteration and commit, and
\* the close update leaves in that row the cpu time, the metrics string and
\* the file name of the update message, for every master key (the empty key
\* included) and every metrics string.
C22_MessageLossless ==
    \A r \in Runs :
        NonDebug(r) =>
            /\ ~(pc[r] = "raised" /\ loc[r].site = "open")
            /\ Did(r, "open") =>
                   \E x \in TableOf(r) :
                       /\ x.variant = loc[r].master_variant
                       /\ x.iteration = IntToStr(loc[r].iteration)
                       /\ x.commit = loc[r].commit
                       /\ Did(r, "close") =>
                              /\ x.cpu_time = CpuText
                              /\ x.results = Fmt(loc[r].metrics)
                              /\ x.filename = Fmt(loc[r].new_filename)

\* C23: a run that is rejected by the registration of one of its parameters
\* (a conflict with the stored value, or a value that has no canonical string)
\* leaves the variant tables as they were before the run.  Before the first
\* run of a process on a new database they are empty, so they are empty after
\* its rejection.
C23_RejectedRunRegistersNothing ==
    (/\ ncalls = 1 /\ pc[1] = "raised" /\ loc[1].site = "verify"
     /\ loc[1].raised \in {"RuntimeError", "ValueError", "ImportError"}) =>
        \A a \in ArgNames : variants[a] = {}

\* C24: a run with debug=True, whatever its parameters, inserts and updates
\* no trial row and no variant row, so the rows present before it are
\* unchanged after it, and it uses iteration 0 and the commit '0000000'.
C24_DebugRunWritesNothing ==
    [][\A r \in Runs :
          (args'[r].debug /\ pc'[r] # "idle") =>
              /\ (pc[r] \in Running /\ <<pc[r], loc[r]>> # <<pc'[r], loc'[r]>>) =>
                     trials' = trials /\ variants' = variants
              /\ loc'[r].iteration = 0
              /\ (\E k \in 1..Len(loc'[r].steps) : loc'[r].steps[k] = "open") =>
                     loc'[r].commit = DebugCommit]_vars

\* A debug run of a value that a tracked run refuses has returned, on a
\* database that held rows before it.
C24_Witness ==
    \E r \in Runs :
        /\ args[r].debug /\ pc[r] = "returned" /\ Did(r, "close")
        /\ loc[r].iteration = 0 /\ loc[r].commit = DebugCommit
        /\ \E k \in 1..Len(args[r].params) : CanonicalStr(args[r].params[k].vals).exc # ""
        /\ TableOf(r) # {}
        /\ \E a \in ArgNames : variants[a] # {}

\* C25: the canonical string of a mapping starts with '{' and ends with '}',
\* that of a list starts with '[' and ends with ']'; the empty mapping gives
\* '{}' and the empty list '[]'.
C25_BracketsClosed ==
    (out.done /\ out.op = "canonical" /\ out.res.exc = "" /\ inp.t \in {"dict", "list"}) =>
        LET text == out.res.text
            open == IF inp.t = "dict" THEN "{" ELSE "["
            close == IF inp.t = "dict" THEN "}" ELSE "]"
        IN  /\ Len(text) >= 2
            /\ text[1] = open /\ text[Len(text)] = close
            /\ inp.items = <<>> => text = <<open, close>>

====
